---- MODULE Spec2Model ----
(***************************************************************************)
(* State-machine model of the geocoin game in src/src/main.ts: the grid,    *)
(* the Cache mementos and their directory, the reconciliation of the cache *)
(* markers with the player position, collect/deposit and save/load; and of *)
(* its counter variant in src/unnamed/part_000, which keeps a number of    *)
(* coins per cache.                                                        *)
(*                                                                         *)
(* Geographic coordinates are integers in units of 1e-5 degree, so that    *)
(* TILE_WIDTH = 0.0001 degree is 10 units.  Distances are in centimetres.  *)
(* luck values are integers in hundredths: floor(luck(key) * 100).         *)
(***************************************************************************)
EXTENDS Integers, Sequences, FiniteSets, TLC

\* ---------------------------------------------------------------- bounds
\* Number of user events (clicks, geolocation callbacks, page unloads)
\* explored in one behaviour.
MaxEvents == 5

\* ------------------------------------------------------------- constants
TILE_WIDTH == 10
TILE_VISIBILITY_RADIUS == 4
MOVE_INCREMENT == 10
DEGREES_TO_METERS == 10000
CACHE_SPAWN_PROBABILITY == 10
COIN_COUNT_SCALE == 100

\* OAKES_CLASSROOM = (36.98949379578401, -122.06277128548504)
OAKES_LAT == 3698949
OAKES_LNG == -12206277
OAKES_CLASSROOM == [lat |-> OAKES_LAT, lng |-> OAKES_LNG]

\* Centimetres per coordinate unit of latitude and of longitude at the
\* latitude of the play area (what leaflet's distanceTo measures there).
CM_PER_UNIT_LAT == 111
CM_PER_UNIT_LNG == 89

\* ------------------------------------------------------------- utilities
Range(s) == {s[x] : x \in DOMAIN s}

RECURSIVE SumOver(_, _)
SumOver(S, f) ==
  IF S = {} THEN 0
  ELSE LET x == CHOOSE y \in S : TRUE IN f[x] + SumOver(S \ {x}, f)

\* Array.prototype.filter
RECURSIVE FilterSeq(_, _)
FilterSeq(s, keep) ==
  IF s = <<>> THEN <<>>
  ELSE IF Head(s) \in keep THEN <<Head(s)>> \o FilterSeq(Tail(s), keep)
       ELSE FilterSeq(Tail(s), keep)

\* Lexicographic order on cell keys <<i, j>>: the order in which
\* getCellsNearPoint enumerates cells (rows of i, then j).
KeyLess(a, b) == a[1] < b[1] \/ (a[1] = b[1] /\ a[2] < b[2])

RECURSIVE SortKeys(_)
SortKeys(S) ==
  IF S = {} THEN <<>>
  ELSE LET m == CHOOSE a \in S : \A b \in S \ {a} : KeyLess(a, b)
       IN <<m>> \o SortKeys(S \ {m})

\* ------------------------------------------------------------------ Grid
\* ./grid.ts is not part of the sources; modelled from the specification.
getCellForPoint(p) ==
  [i |-> p.lat \div TILE_WIDTH, j |-> p.lng \div TILE_WIDTH]

\* grid.getCellBound(cell).getCenter()
getCellCenter(cell) ==
  [lat |-> cell.i * TILE_WIDTH + TILE_WIDTH \div 2,
   lng |-> cell.j * TILE_WIDTH + TILE_WIDTH \div 2]

getCellsNearPoint(p) ==
  LET c == getCellForPoint(p)
  IN { [i |-> c.i + di, j |-> c.j + dj] :
         di \in -TILE_VISIBILITY_RADIUS .. TILE_VISIBILITY_RADIUS,
         dj \in -TILE_VISIBILITY_RADIUS .. TILE_VISIBILITY_RADIUS }

\* `${cell.i},${cell.j}` and [cell.i, cell.j].toString()
CellKey(cell) == <<cell.i, cell.j>>

\* key.split(",").map(Number)
KeyCell(key) == [i |-> key[1], j |-> key[2]]

\* leaflet LatLng.distanceTo, squared, in cm^2.
DistanceSq(p, q) ==
  LET a == (p.lat - q.lat) * CM_PER_UNIT_LAT
      b == (p.lng - q.lng) * CM_PER_UNIT_LNG
  IN a * a + b * b

\* TILE_VISIBILITY_RADIUS * TILE_WIDTH * DEGREES_TO_METERS, in centimetres
\* (TILE_WIDTH is in 1e-5 degree, a metre is 100 cm: a factor of 1/1000).
maxDistance == (TILE_VISIBILITY_RADIUS * TILE_WIDTH * DEGREES_TO_METERS) \div 1000

\* playerPosition.distanceTo(cellCenter) <= maxDistance
WithinDistance(p, q) == DistanceSq(p, q) <= maxDistance * maxDistance

\* ------------------------------------------------------ Coin, Cache, JSON
Coin(id) == [id |-> id]

NewCache(location, coins) == [location |-> location, coins |-> coins]

\* JSON text of a list of strings, as a sequence of lexical tokens.
Tok(ch, val) == [ch |-> ch, val |-> val]

RECURSIVE JoinIds(_)
JoinIds(ids) ==
  IF ids = <<>> THEN <<>>
  ELSE IF Len(ids) = 1 THEN <<Tok("str", ids[1])>>
  ELSE <<Tok("str", ids[1]), Tok(",", <<>>)>> \o JoinIds(Tail(ids))

\* JSON.stringify(array of strings)
JSONstringify(ids) == <<Tok("[", <<>>)>> \o JoinIds(ids) \o <<Tok("]", <<>>)>>

RECURSIVE StrVals(_)
StrVals(text) ==
  IF text = <<>> THEN <<>>
  ELSE IF Head(text).ch = "str" THEN <<Head(text).val>> \o StrVals(Tail(text))
       ELSE StrVals(Tail(text))

\* JSON.parse(text of an array of strings)
JSONparse(text) == StrVals(text)

\* Cache.toMemento
toMemento(cache) ==
  JSONstringify([x \in 1 .. Len(cache.coins) |-> cache.coins[x].id])

\* fromMemento filling the list from the front (unshift in place of map)
fromMementoReversed(cache, memento) ==
  LET coinIds == JSONparse(memento)
      n == Len(coinIds)
  IN [cache EXCEPT !.coins = [x \in 1 .. n |-> Coin(coinIds[n + 1 - x])]]

\* Cache.fromMemento: the cache with its coins replaced
fromMemento(cache, memento) ==
  LET coinIds == JSONparse(memento)
  IN [cache EXCEPT !.coins = [x \in 1 .. Len(coinIds) |-> Coin(coinIds[x])]]

\* ------------------------------------------------------------ luck oracle
\* ./luck.ts is not part of the sources: a pure function of the key.  The
\* cells of LuckCells draw their value at Init; every other cell rolls
\* DefaultLuck (no cache).
OakesCell == getCellForPoint(OAKES_CLASSROOM)

CellSouth == <<OakesCell.i - TILE_VISIBILITY_RADIUS, OakesCell.j>>
CellNorth == <<OakesCell.i + TILE_VISIBILITY_RADIUS + 1, OakesCell.j>>
LuckCells == {CellSouth, CellNorth}
LuckVals == {2, 10}
DefaultLuck == 50

\* Positions a geolocation callback may report.
GeoPoints == {getCellCenter(KeyCell(CellSouth))}

\* Arguments of direct calls of collectCoin that no cache holds.
ForeignCoins == {Coin(<<0, 0, 0>>)}

Directions == {"up", "down", "left", "right"}

VARIABLES
  pc,                    \* "start" | "spawned" | "running"
  events,                \* user events handled so far
  luckTable,             \* the oracle: LuckCells -> hundredths
  storage,               \* localStorage
  playerPos,             \* playerMarker.getLatLng()
  playerInventory,       \* Coin[]
  cacheMementos,         \* Map<string, string>
  movementHistory,       \* LatLng[]
  mapMarkers,            \* cache markers on the map: marker id -> its Cache
  activeCacheMarkers,    \* Map<string, Marker>: cell key -> marker id
  popup,                 \* the open popup and its live Collect buttons
  geolocationActive,
  geolocactionWatcherId,
  watches,               \* navigator.geolocation: registered watch ids
  watchCount,            \* ids handed out by watchPosition on this page
  lastOp,                \* the handler that ran last
  evicted,               \* history: cell key -> the token ids its Cache held
                         \* when its marker was removed, until the cell is
                         \* materialized again or a collect/deposit touches it
  counterPc,             \* part_000: "start" | "running"
  coins,                 \* part_000: let coins
  cacheCoins,            \* part_000: cell <<x, y>> -> its cache's cacheCoins
  counterOp              \* part_000: the handler of part_000 that ran last

vars == <<pc, events, luckTable, storage, playerPos, playerInventory,
          cacheMementos, movementHistory, mapMarkers, activeCacheMarkers,
          popup, geolocationActive, geolocactionWatcherId, watches,
          watchCount, lastOp, evicted, counterPc, coins, cacheCoins,
          counterOp>>

\* The state of the counter variant, src/unnamed/part_000
counterVars == <<counterPc, coins, cacheCoins, counterOp>>

EmptyMap == [x \in {} |-> x]
NoPopup == [marker |-> 0, buttons |-> <<>>]
NoWatcher == 0
EmptyStorage ==
  [inventory |-> <<>>, playerPosition |-> <<>>,
   cacheMementos |-> <<>>, movementHistory |-> <<>>]

Op(name, marker, coin) == [op |-> name, marker |-> marker, coin |-> coin]

MapPut(f, k, v) == [x \in DOMAIN f \cup {k} |-> IF x = k THEN v ELSE f[x]]
MapDrop(f, ks) == [x \in DOMAIN f \ ks |-> f[x]]

\* luck([cell.i, cell.j].toString()), in hundredths
luck(key) == IF key \in DOMAIN luckTable THEN luckTable[key] ELSE DefaultLuck

\* ------------------------------------------------------ cache management
generateCoins(cell) ==
  LET coinCount == (luck(CellKey(cell)) * COIN_COUNT_SCALE) \div 100
  IN [k \in 1 .. coinCount |-> Coin(<<cell.i, cell.j, k - 1>>)]

\* manageCacheState: the cache and the directory after the call
manageCacheState(dir, cellKey, cache, isSave) ==
  IF isSave
  THEN [cache |-> cache, dir |-> MapPut(dir, cellKey, toMemento(cache))]
  ELSE IF cellKey \in DOMAIN dir
       THEN [cache |-> fromMemento(cache, dir[cellKey]), dir |-> dir]
       ELSE [cache |-> cache, dir |-> dir]

getOrCreateCache(dir, cellCenter) ==
  LET cell == getCellForPoint(cellCenter)
      cellKey == CellKey(cell)
  IN IF cellKey \in DOMAIN dir
     THEN manageCacheState(dir, cellKey, NewCache(cellCenter, <<>>), FALSE)
     ELSE manageCacheState(dir, cellKey,
                           NewCache(cellCenter, generateCoins(cell)), TRUE)

\* leaflet.marker(...).addTo(map): the new marker takes the first free id
FreshMarker(markers) ==
  CHOOSE n \in 1 .. Cardinality(DOMAIN markers) + 1 : n \notin DOMAIN markers

addCacheMarker(markers, cache) ==
  LET id == FreshMarker(markers)
  IN [marker |-> id, markers |-> MapPut(markers, id, cache)]

spawnCache(dir, markers, cellCenter) ==
  LET got == getOrCreateCache(dir, cellCenter)
      added == addCacheMarker(markers, got.cache)
  IN [marker |-> added.marker, markers |-> added.markers, dir |-> got.dir]

\* nearbyCell.forEach(...) of the module body: the markers are not kept
RECURSIVE SpawnUntracked(_, _, _)
SpawnUntracked(dir, markers, keys) ==
  IF keys = <<>> THEN [dir |-> dir, markers |-> markers]
  ELSE LET s == spawnCache(dir, markers, getCellCenter(KeyCell(Head(keys))))
       IN SpawnUntracked(s.dir, s.markers, Tail(keys))

\* nearbyCells.forEach(...) of updateNearbyCaches: the markers are tracked
RECURSIVE SpawnTracked(_, _, _, _)
SpawnTracked(dir, markers, active, keys) ==
  IF keys = <<>> THEN [dir |-> dir, markers |-> markers, active |-> active]
  ELSE LET s == spawnCache(dir, markers, getCellCenter(KeyCell(Head(keys))))
       IN SpawnTracked(s.dir, s.markers,
                       MapPut(active, Head(keys), s.marker), Tail(keys))

\* Keys whose marker updateNearbyCaches removes
\* No tracked marker is ever found out of range
StaleKeysNone(pos, active) == {}

StaleKeys(pos, active) ==
  { k \in DOMAIN active :
      ~WithinDistance(pos, getCellCenter(KeyCell(k))) }

\* updateNearbyCaches with <= in place of < in the luck test
SpawnGateInclusive(key, active) ==
  key \notin DOMAIN active /\ luck(key) <= CACHE_SPAWN_PROBABILITY

\* Cells for which updateNearbyCaches spawns a cache
SpawnGate(key, active) ==
  key \notin DOMAIN active /\ luck(key) < CACHE_SPAWN_PROBABILITY

updateNearbyCaches(pos, dir, markers, active) ==
  LET stale == StaleKeys(pos, active)
      gone == {active[k] : k \in stale}
      markers1 == MapDrop(markers, gone)
      active1 == MapDrop(active, stale)
      toAdd == { CellKey(c) : c \in getCellsNearPoint(pos) }
      add == SortKeys({ k \in toAdd : SpawnGate(k, active1) })
      s == SpawnTracked(dir, markers1, active1, add)
  IN [dir |-> s.dir, markers |-> s.markers, active |-> s.active,
      removed |-> gone, stale |-> stale]

\* A popup closes when its marker is removed from the map.
PopupAfter(pop, removed) == IF pop.marker \in removed THEN NoPopup ELSE pop

\* ----------------------------------------------------------- persistence
\* A stored item is <<>> (getItem returns null) or <<text>>.
CoinIds(coinList) == [x \in 1 .. Len(coinList) |-> coinList[x].id]

savePlayerInventory(inv) == <<JSONstringify(CoinIds(inv))>>

savePlayerPosition(pos) == <<[lat |-> pos.lat, lng |-> pos.lng]>>

\* The JSON object of the directory: one property per key, each value the
\* memento string.
saveCacheMementos(dir) ==
  << { [key |-> k, value |-> [type |-> "string", text |-> dir[k]]] :
         k \in DOMAIN dir } >>

saveMovementHistory(hist) ==
  <<[x \in 1 .. Len(hist) |-> [lat |-> hist[x].lat, lng |-> hist[x].lng]]>>

saveGameState ==
  [inventory |-> savePlayerInventory(playerInventory),
   playerPosition |-> savePlayerPosition(playerPos),
   cacheMementos |-> saveCacheMementos(cacheMementos),
   movementHistory |-> saveMovementHistory(movementHistory)]

loadPlayerPosition(pos, store) ==
  IF store.playerPosition # <<>>
  THEN [lat |-> store.playerPosition[1].lat, lng |-> store.playerPosition[1].lng]
  ELSE pos

loadPlayerInventory(inv, store) ==
  IF store.inventory # <<>>
  THEN LET ids == JSONparse(store.inventory[1])
       IN [x \in 1 .. Len(ids) |-> Coin(ids[x])]
  ELSE inv

\* The entries of the stored object that loadCacheMementos keeps
LoadedDirectory(entries) ==
  LET ok == { e \in entries : e.value.type = "string" }
  IN [k \in { e.key : e \in ok } |->
        (CHOOSE e \in ok : e.key = k).value.text]

\* Directory keys for which loadCacheMementos spawns a cache
LoadSpawnKeys(position, dir) ==
  { k \in DOMAIN dir :
      WithinDistance(position, getCellCenter(KeyCell(k))) }

\* A memento on which fromMemento throws: JSON.parse rejects the text, or
\* the value it returns is not an array and has no map
IsArrayText(text) ==
  /\ Len(text) >= 2
  /\ text[1].ch = "["
  /\ text[Len(text)].ch = "]"
  /\ Len(text) > 2 => Len(text) % 2 = 1
  /\ \A x \in 2 .. Len(text) - 1 :
       text[x].ch = (IF x % 2 = 0 THEN "str" ELSE ",")

fromMementoThrows(memento) == ~IsArrayText(memento)

\* The directory without cacheMementos.clear()
KeptDirectory(dir) == dir

\* cacheMementos.clear()
ClearedDirectory(dir) == EmptyMap

\* loadCacheMementos(playerPosition): directory, markers, tracked markers,
\* and whether fromMemento threw in the forEach, which ends loadGameState
loadCacheMementos(position, dir, markers, active, store) ==
  LET markers1 == MapDrop(markers, Range(active))
  IN IF store.cacheMementos # <<>>
     THEN LET loaded == LoadedDirectory(store.cacheMementos[1])
              dir0 == ClearedDirectory(dir)
              dir1 == [k \in DOMAIN dir0 \cup DOMAIN loaded |->
                         IF k \in DOMAIN loaded THEN loaded[k] ELSE dir0[k]]
              keys == SortKeys(LoadSpawnKeys(position, dir1))
              bad == { x \in 1 .. Len(keys) : fromMementoThrows(dir1[keys[x]]) }
              done == IF bad = {} THEN Len(keys)
                      ELSE (CHOOSE x \in bad : \A y \in bad : x <= y) - 1
              s == SpawnUntracked(dir1, markers1, SubSeq(keys, 1, done))
          IN [dir |-> s.dir, markers |-> s.markers, active |-> EmptyMap,
              threw |-> bad # {}]
     ELSE [dir |-> dir, markers |-> markers1, active |-> EmptyMap,
           threw |-> FALSE]

loadMovementHistory(hist, store) ==
  IF store.movementHistory # <<>>
  THEN [x \in 1 .. Len(store.movementHistory[1]) |->
          [lat |-> store.movementHistory[1][x].lat,
           lng |-> store.movementHistory[1][x].lng]]
  ELSE hist

\* ---------------------------------------------------------------- startup
\* Nothing has run yet: the memory of a page that is about to be loaded.
InitMemory ==
  /\ pc = "start"
  /\ events = 0
  /\ counterPc = "start"
  /\ coins = 0
  /\ cacheCoins = EmptyMap
  /\ counterOp = "none"
  /\ playerPos = OAKES_CLASSROOM
  /\ playerInventory = <<>>
  /\ cacheMementos = EmptyMap
  /\ movementHistory = <<>>
  /\ mapMarkers = EmptyMap
  /\ activeCacheMarkers = EmptyMap
  /\ popup = NoPopup
  /\ geolocationActive = FALSE
  /\ geolocactionWatcherId = NoWatcher
  /\ watches = {}
  /\ watchCount = 0
  /\ lastOp = Op("none", 0, <<>>)
  /\ evicted = EmptyMap

Init ==
  /\ luckTable \in [LuckCells -> LuckVals]
  /\ storage = EmptyStorage
  /\ InitMemory

\* Cells for which the module body spawns a cache
InitialSpawnKeys ==
  { CellKey(c) : c \in
      { d \in getCellsNearPoint(OAKES_CLASSROOM) :
          luck(CellKey(d)) < CACHE_SPAWN_PROBABILITY } }

\* The module body up to the registration of the event listeners: a new page.
ModuleInit ==
  /\ pc = "start"
  /\ LET s == SpawnUntracked(EmptyMap, EmptyMap, SortKeys(InitialSpawnKeys))
     IN /\ cacheMementos' = s.dir
        /\ mapMarkers' = s.markers
  /\ playerPos' = OAKES_CLASSROOM
  /\ playerInventory' = <<>>
  /\ movementHistory' = <<>>
  /\ activeCacheMarkers' = EmptyMap
  /\ popup' = NoPopup
  /\ geolocationActive' = FALSE
  /\ geolocactionWatcherId' = NoWatcher
  /\ watches' = {}
  /\ watchCount' = 0
  /\ pc' = "spawned"
  /\ lastOp' = Op("moduleInit", 0, <<>>)
  /\ UNCHANGED counterVars
  /\ evicted' = EmptyMap
  /\ UNCHANGED <<events, luckTable, storage>>

\* loadGameState(), the last statement of the module body
LoadGameState ==
  /\ pc = "spawned"
  /\ LET playerPosition == playerPos
         l == loadCacheMementos(playerPosition, cacheMementos, mapMarkers,
                                activeCacheMarkers, storage)
     IN /\ playerInventory' = loadPlayerInventory(playerInventory, storage)
        /\ playerPos' = loadPlayerPosition(playerPos, storage)
        /\ cacheMementos' = l.dir
        /\ mapMarkers' = l.markers
        /\ activeCacheMarkers' = l.active
        /\ movementHistory' =
             IF l.threw THEN movementHistory
             ELSE loadMovementHistory(movementHistory, storage)
  /\ pc' = "running"
  /\ lastOp' = Op("loadGameState", 0, <<>>)
  /\ UNCHANGED counterVars
  /\ UNCHANGED <<events, luckTable, storage, popup, geolocationActive,
                 geolocactionWatcherId, watches, watchCount, evicted>>

\* beforeunload: saveGameState, and the page goes away
BeforeUnload ==
  /\ pc = "running"
  /\ events < MaxEvents
  /\ events' = events + 1
  /\ storage' = saveGameState
  /\ pc' = "start"
  /\ lastOp' = Op("saveGameState", 0, <<>>)
  /\ UNCHANGED counterVars
  /\ UNCHANGED <<luckTable, playerPos, playerInventory, cacheMementos,
                 movementHistory, mapMarkers, activeCacheMarkers, popup,
                 geolocationActive, geolocactionWatcherId, watches, watchCount,
                 evicted>>

\* ---------------------------------------------------------------- movement
NewLatLng(pos, direction) ==
  CASE direction = "up" -> [lat |-> pos.lat + MOVE_INCREMENT, lng |-> pos.lng]
    [] direction = "down" -> [lat |-> pos.lat - MOVE_INCREMENT, lng |-> pos.lng]
    [] direction = "left" -> [lat |-> pos.lat, lng |-> pos.lng - MOVE_INCREMENT]
    [] direction = "right" -> [lat |-> pos.lat, lng |-> pos.lng + MOVE_INCREMENT]

recordPlayerMovement(hist, newPosition) == Append(hist, newPosition)

\* The history of removed caches after a reconciliation that removed the
\* markers of `stale` and left the cells of `nowActive` materialized.
EvictedAfter(stale, nowActive) ==
  [k \in ((DOMAIN evicted) \cup stale) \ nowActive |->
     IF k \in stale
     THEN CoinIds(mapMarkers[activeCacheMarkers[k]].coins)
     ELSE evicted[k]]

\* The position change and reconciliation shared by movePlayer and the
\* watchPosition callback.
MoveTo(newLatLng) ==
  LET u == updateNearbyCaches(newLatLng, cacheMementos, mapMarkers,
                              activeCacheMarkers)
  IN /\ movementHistory' = recordPlayerMovement(movementHistory, newLatLng)
     /\ playerPos' = newLatLng
     /\ cacheMementos' = u.dir
     /\ mapMarkers' = u.markers
     /\ activeCacheMarkers' = u.active
     /\ popup' = PopupAfter(popup, u.removed)
     /\ evicted' = EvictedAfter(u.stale, DOMAIN u.active)

\* click on north / south / west / east
MovePlayer(direction) ==
  /\ pc = "running"
  /\ events < MaxEvents
  /\ events' = events + 1
  /\ MoveTo(NewLatLng(playerPos, direction))
  /\ lastOp' = Op("movePlayer", 0, <<>>)
  /\ UNCHANGED counterVars
  /\ UNCHANGED <<pc, luckTable, storage, playerInventory, geolocationActive,
                 geolocactionWatcherId, watches, watchCount>>

\* The sensor listener whose stop branch only clears the flag
sensorClickNoClear(active, id, ws, count) ==
  IF ~active
  THEN [active |-> TRUE, id |-> count + 1, watches |-> ws \cup {count + 1},
        count |-> count + 1]
  ELSE [active |-> FALSE, id |-> id, watches |-> ws, count |-> count]

\* The click listener of sensor: the flag, the watcher id, the watches the
\* browser holds and the number of ids watchPosition has handed out
sensorClick(active, id, ws, count) ==
  IF ~active
  THEN [active |-> TRUE, id |-> count + 1, watches |-> ws \cup {count + 1},
        count |-> count + 1]
  ELSE IF id # NoWatcher
       THEN [active |-> FALSE, id |-> NoWatcher, watches |-> ws \ {id},
             count |-> count]
       ELSE [active |-> FALSE, id |-> id, watches |-> ws, count |-> count]

\* click on sensor
SensorClick ==
  /\ pc = "running"
  /\ events < MaxEvents
  /\ events' = events + 1
  /\ LET r == sensorClick(geolocationActive, geolocactionWatcherId, watches,
                          watchCount)
     IN /\ geolocationActive' = r.active
        /\ geolocactionWatcherId' = r.id
        /\ watches' = r.watches
        /\ watchCount' = r.count
  /\ lastOp' = Op("sensor", 0, <<>>)
  /\ UNCHANGED counterVars
  /\ UNCHANGED <<pc, luckTable, storage, playerPos, playerInventory,
                 cacheMementos, movementHistory, mapMarkers,
                 activeCacheMarkers, popup, evicted>>

\* the watchPosition callback
GeoCallback(point) ==
  /\ pc = "running"
  /\ events < MaxEvents
  /\ watches # {}
  /\ events' = events + 1
  /\ MoveTo(point)
  /\ lastOp' = Op("watchPosition", 0, <<>>)
  /\ UNCHANGED counterVars
  /\ UNCHANGED <<pc, luckTable, storage, playerInventory, geolocationActive,
                 geolocactionWatcherId, watches, watchCount>>

\* click on reset
ResetClick ==
  /\ pc = "running"
  /\ events < MaxEvents
  /\ events' = events + 1
  /\ storage' = EmptyStorage
  /\ playerInventory' = <<>>
  /\ cacheMementos' = EmptyMap
  /\ movementHistory' = <<>>
  /\ playerPos' = OAKES_CLASSROOM
  /\ lastOp' = Op("reset", 0, <<>>)
  /\ UNCHANGED counterVars
  /\ UNCHANGED <<pc, luckTable, mapMarkers, activeCacheMarkers, popup,
                 geolocationActive, geolocactionWatcherId, watches, watchCount,
                 evicted>>

\* --------------------------------------------------------- collect, deposit
\* collectCoin(coin, cache, popupDiv), the cache being that of marker m
collectCoin(coin, m, inv, markers, dir) ==
  LET cache == markers[m]
      kept == { c \in Range(cache.coins) : c.id # coin.id }
      cache1 == [cache EXCEPT !.coins = FilterSeq(cache.coins, kept)]
      cellKey == CellKey(getCellForPoint(cache.location))
      saved == manageCacheState(dir, cellKey, cache1, TRUE)
  IN [inv |-> Append(inv, coin),
      markers |-> [markers EXCEPT ![m] = saved.cache],
      dir |-> saved.dir]

\* playerInventory.pop() in place of shift()
ShiftLast(inv) ==
  [coin |-> inv[Len(inv)], rest |-> SubSeq(inv, 1, Len(inv) - 1)]

\* playerInventory.shift()
Shift(inv) == [coin |-> Head(inv), rest |-> Tail(inv)]

\* depositCoin without the test of playerInventory.length: shift() of an
\* empty array returns undefined, which is pushed to the cache
depositCoinUnguarded(m, inv, markers, dir) ==
  LET coin == IF inv = <<>> THEN Coin(<<>>) ELSE Head(inv)
      rest == IF inv = <<>> THEN <<>> ELSE Tail(inv)
      cache == markers[m]
      cache1 == [cache EXCEPT !.coins = Append(cache.coins, coin)]
      cellKey == CellKey(getCellForPoint(cache.location))
      saved == manageCacheState(dir, cellKey, cache1, TRUE)
  IN [inv |-> rest,
      markers |-> [markers EXCEPT ![m] = saved.cache],
      dir |-> saved.dir]

\* depositCoin(cache, popupDiv), the cache being that of marker m
depositCoin(m, inv, markers, dir) ==
  IF Len(inv) > 0
  THEN LET sh == Shift(inv)
           cache == markers[m]
           cache1 == [cache EXCEPT !.coins = Append(cache.coins, sh.coin)]
           cellKey == CellKey(getCellForPoint(cache.location))
           saved == manageCacheState(dir, cellKey, cache1, TRUE)
       IN [inv |-> sh.rest,
           markers |-> [markers EXCEPT ![m] = saved.cache],
           dir |-> saved.dir]
  ELSE [inv |-> inv, markers |-> markers, dir |-> dir]

\* The popupDiv that renderDepositOptions hands to createDepositElement
renderDepositOptionsPopupDiv == "null"

\* The click listener of createDepositElement(cache, popupDiv)
depositButtonClick(m, popupDiv, inv, markers, dir) ==
  IF popupDiv # "null"
  THEN depositCoin(m, inv, markers, dir)
  ELSE [inv |-> inv, markers |-> markers, dir |-> dir]

\* The history after a collect or deposit on the cache of marker m
MarkerKey(m) == CellKey(getCellForPoint(mapMarkers[m].location))
Touched(m) == MapDrop(evicted, {MarkerKey(m)})

\* click on a cache marker: the popup opens and its content is rebuilt by
\* createCachePopupContent, one Collect button per coin of the cache
OpenPopup(m) ==
  /\ pc = "running"
  /\ events < MaxEvents
  /\ m \in DOMAIN mapMarkers
  /\ events' = events + 1
  /\ popup' = [marker |-> m, buttons |-> mapMarkers[m].coins]
  /\ lastOp' = Op("openPopup", m, <<>>)
  /\ UNCHANGED counterVars
  /\ UNCHANGED <<pc, luckTable, storage, playerPos, playerInventory,
                 cacheMementos, movementHistory, mapMarkers,
                 activeCacheMarkers, geolocationActive,
                 geolocactionWatcherId, watches, watchCount, evicted>>

\* click on a Collect button of the open popup; collectCoin then overwrites
\* the innerHTML of the coin list, which drops every Collect listener
CollectClick(x) ==
  /\ pc = "running"
  /\ events < MaxEvents
  /\ popup.marker # 0
  /\ x \in 1 .. Len(popup.buttons)
  /\ events' = events + 1
  /\ LET r == collectCoin(popup.buttons[x], popup.marker, playerInventory,
                          mapMarkers, cacheMementos)
     IN /\ playerInventory' = r.inv
        /\ mapMarkers' = r.markers
        /\ cacheMementos' = r.dir
  /\ popup' = [popup EXCEPT !.buttons = <<>>]
  /\ lastOp' = Op("collectCoin", popup.marker, popup.buttons[x].id)
  /\ UNCHANGED counterVars
  /\ evicted' = Touched(popup.marker)
  /\ UNCHANGED <<pc, luckTable, storage, playerPos, movementHistory,
                 activeCacheMarkers, geolocationActive,
                 geolocactionWatcherId, watches, watchCount>>

\* click on the Deposit button of the open popup
DepositClick ==
  /\ pc = "running"
  /\ events < MaxEvents
  /\ popup.marker # 0
  /\ events' = events + 1
  /\ LET r == depositButtonClick(popup.marker, renderDepositOptionsPopupDiv,
                                 playerInventory, mapMarkers, cacheMementos)
     IN /\ playerInventory' = r.inv
        /\ mapMarkers' = r.markers
        /\ cacheMementos' = r.dir
  /\ lastOp' = Op("depositClick", popup.marker, <<>>)
  /\ UNCHANGED counterVars
  /\ evicted' = IF mapMarkers' = mapMarkers THEN evicted
                ELSE Touched(popup.marker)
  /\ UNCHANGED <<pc, luckTable, storage, playerPos, movementHistory,
                 activeCacheMarkers, popup, geolocationActive,
                 geolocactionWatcherId, watches, watchCount>>

Next ==
  \/ ModuleInit
  \/ LoadGameState
  \/ BeforeUnload
  \/ \E d \in Directions : MovePlayer(d)
  \/ SensorClick
  \/ \E p \in GeoPoints : GeoCallback(p)
  \/ ResetClick
  \/ \E m \in DOMAIN mapMarkers : OpenPopup(m)
  \/ \E x \in 1 .. Len(popup.buttons) : CollectClick(x)
  \/ DepositClick

Spec == Init /\ [][Next]_vars

\* ------------------------------------------------- direct function calls
\* collectCoin and depositCoin called as functions, with the Cache of any
\* marker on the map and a Coin the cache holds or one it does not hold.
CallCoins(m) == ForeignCoins \cup Range(mapMarkers[m].coins)

CallCollectCoin(coin, m) ==
  /\ pc = "running"
  /\ events < MaxEvents
  /\ m \in DOMAIN mapMarkers
  /\ events' = events + 1
  /\ LET r == collectCoin(coin, m, playerInventory, mapMarkers, cacheMementos)
     IN /\ playerInventory' = r.inv
        /\ mapMarkers' = r.markers
        /\ cacheMementos' = r.dir
  /\ lastOp' = Op("collectCoin", m, coin.id)
  /\ UNCHANGED counterVars
  /\ evicted' = Touched(m)
  /\ UNCHANGED <<pc, luckTable, storage, playerPos, movementHistory,
                 activeCacheMarkers, popup, geolocationActive,
                 geolocactionWatcherId, watches, watchCount>>

CallDepositCoin(m) ==
  /\ pc = "running"
  /\ events < MaxEvents
  /\ m \in DOMAIN mapMarkers
  /\ events' = events + 1
  /\ LET r == depositCoin(m, playerInventory, mapMarkers, cacheMementos)
     IN /\ playerInventory' = r.inv
        /\ mapMarkers' = r.markers
        /\ cacheMementos' = r.dir
  /\ lastOp' = Op("depositCoin", m, <<>>)
  /\ UNCHANGED counterVars
  /\ evicted' = Touched(m)
  /\ UNCHANGED <<pc, luckTable, storage, playerPos, movementHistory,
                 activeCacheMarkers, popup, geolocationActive,
                 geolocactionWatcherId, watches, watchCount>>

NextFn ==
  \/ ModuleInit
  \/ LoadGameState
  \/ \E d \in Directions : MovePlayer(d)
  \/ \E m \in DOMAIN mapMarkers : \E c \in CallCoins(m) : CallCollectCoin(c, m)
  \/ \E m \in DOMAIN mapMarkers : CallDepositCoin(m)

SpecFn == Init /\ [][NextFn]_vars

\* One session of play: no reset, no page unload (so no load of saved state).
NextSession ==
  \/ ModuleInit
  \/ LoadGameState
  \/ \E d \in Directions : MovePlayer(d)
  \/ SensorClick
  \/ \E p \in GeoPoints : GeoCallback(p)
  \/ \E m \in DOMAIN mapMarkers : OpenPopup(m)
  \/ \E x \in 1 .. Len(popup.buttons) : CollectClick(x)
  \/ DepositClick

SpecSession == Init /\ [][NextSession]_vars

\* ------------------------------------ the counter variant, part_000
\* src/unnamed/part_000 keeps a number of coins per cache and one for the
\* player, in place of the token lists of main.ts.
LOCAL_RADIUS == 8
SPAWN_PROB == 10
CACHE_COINS_SCALE == 10

\* [x, y, "coins"].toString()
CoinsKey(x, y) == <<x, y, "coins">>

\* Math.floor(luck([x, y, "coins"].toString()) * 10) + 1
initialCacheCoins(x, y) ==
  (luck(CoinsKey(x, y)) * CACHE_COINS_SCALE) \div 100 + 1

\* The cells <<x, y>> the two for loops visit
PlacementCells ==
  { <<x, y>> : x \in -LOCAL_RADIUS .. LOCAL_RADIUS - 1,
               y \in -LOCAL_RADIUS .. LOCAL_RADIUS - 1 }

\* The cells for which the loop calls createCache
PlacedCells == { k \in PlacementCells : luck(k) < SPAWN_PROB }

\* The click listener of collectBtn
collectBtnClick(playerCoins, cacheCount) ==
  IF cacheCount > 0
  THEN [coins |-> playerCoins + 1, cacheCoins |-> cacheCount - 1]
  ELSE [coins |-> playerCoins, cacheCoins |-> cacheCount]

\* The click listener of depositBtn
depositBtnClick(playerCoins, cacheCount) ==
  IF playerCoins > 0
  THEN [coins |-> playerCoins - 1, cacheCoins |-> cacheCount + 1]
  ELSE [coins |-> playerCoins, cacheCoins |-> cacheCount]

mainVars ==
  <<pc, storage, playerPos, playerInventory, cacheMementos, movementHistory,
    mapMarkers, activeCacheMarkers, popup, geolocationActive,
    geolocactionWatcherId, watches, watchCount, evicted>>

\* The module body of part_000
CounterStartup ==
  /\ counterPc = "start"
  /\ coins' = 0
  /\ cacheCoins' = [k \in PlacedCells |-> initialCacheCoins(k[1], k[2])]
  /\ counterPc' = "running"
  /\ counterOp' = "startup"
  /\ lastOp' = Op("startup", 0, <<>>)
  /\ UNCHANGED <<events, luckTable>>
  /\ UNCHANGED mainVars

\* click on Collect in the popup of the cache at cell k
CounterCollect(k) ==
  /\ counterPc = "running"
  /\ events < MaxEvents
  /\ k \in DOMAIN cacheCoins
  /\ events' = events + 1
  /\ LET r == collectBtnClick(coins, cacheCoins[k])
     IN /\ coins' = r.coins
        /\ cacheCoins' = [cacheCoins EXCEPT ![k] = r.cacheCoins]
  /\ counterOp' = "collectBtn"
  /\ lastOp' = Op("collectBtn", 0, k)
  /\ UNCHANGED <<counterPc, luckTable>>
  /\ UNCHANGED mainVars

\* click on Deposit in the popup of the cache at cell k
CounterDeposit(k) ==
  /\ counterPc = "running"
  /\ events < MaxEvents
  /\ k \in DOMAIN cacheCoins
  /\ events' = events + 1
  /\ LET r == depositBtnClick(coins, cacheCoins[k])
     IN /\ coins' = r.coins
        /\ cacheCoins' = [cacheCoins EXCEPT ![k] = r.cacheCoins]
  /\ counterOp' = "depositBtn"
  /\ lastOp' = Op("depositBtn", 0, k)
  /\ UNCHANGED <<counterPc, luckTable>>
  /\ UNCHANGED mainVars

\* ------------------------------------------------------ the two variants
\* Both programs over one oracle, which also draws the value of the key
\* [i, j, "coins"] of a cell: main.ts with direct calls of collectCoin and
\* depositCoin, part_000 with its buttons.
CounterCellEdge == <<LOCAL_RADIUS, 0>>
VariantLuckKeys ==
  {CellSouth, CoinsKey(CellSouth[1], CellSouth[2]),
   <<0, 0>>, CoinsKey(0, 0), CounterCellEdge}

InitVariants ==
  /\ luckTable \in [VariantLuckKeys -> LuckVals]
  /\ storage = EmptyStorage
  /\ InitMemory

NextVariants ==
  \/ ModuleInit
  \/ LoadGameState
  \/ \E m \in DOMAIN mapMarkers : \E c \in CallCoins(m) : CallCollectCoin(c, m)
  \/ \E m \in DOMAIN mapMarkers : CallDepositCoin(m)
  \/ CounterStartup
  \/ \E k \in DOMAIN cacheCoins : CounterCollect(k)
  \/ \E k \in DOMAIN cacheCoins : CounterDeposit(k)

SpecVariants == InitVariants /\ [][NextVariants]_vars

\* --------------------------------------------- a storage with bad entries
\* A new page over a storage whose cacheMementos object holds, per key, a
\* memento, a number, a text JSON.parse rejects, or the JSON text of a
\* number.  localStorage belongs to the origin, not to the program.
TamperedKeys == {CellSouth, CellNorth, CellKey(OakesCell)}

GoodMemento == JSONstringify(<< <<0, 0, 0>> >>)
NumberValue == [type |-> "number", text |-> <<>>]
TruncatedText == <<Tok("[", <<>>), Tok("str", <<0, 0, 0>>)>>
NumberText == <<Tok("num", <<>>)>>

StoredValues ==
  { [type |-> "string", text |-> GoodMemento],
    NumberValue,
    [type |-> "string", text |-> TruncatedText],
    [type |-> "string", text |-> NumberText] }

StoredTrail ==
  <<OAKES_CLASSROOM,
    [lat |-> OAKES_LAT + MOVE_INCREMENT, lng |-> OAKES_LNG]>>

TamperedStorages ==
  { [inventory |-> <<JSONstringify(<<>>)>>,
     playerPosition |-> <<OAKES_CLASSROOM>>,
     cacheMementos |-> << { [key |-> k, value |-> f[k]] : k \in DOMAIN f } >>,
     movementHistory |-> <<StoredTrail>>] :
      f \in UNION { [K -> StoredValues] : K \in SUBSET TamperedKeys } }

InitTampered ==
  /\ luckTable \in [LuckCells -> LuckVals]
  /\ storage \in TamperedStorages
  /\ InitMemory

NextTampered ==
  \/ ModuleInit
  \/ LoadGameState

SpecTampered == InitTampered /\ [][NextTampered]_vars

\* ================================================================ claims
InventoryIds == Range(CoinIds(playerInventory))
CacheIds(m) == Range(CoinIds(mapMarkers[m].coins))
MementoIds(k) == Range(JSONparse(cacheMementos[k]))

\* |inventory| + sum of |tokens| over the directory
TotalTokens ==
  Len(playerInventory)
  + SumOver(DOMAIN cacheMementos,
            [k \in DOMAIN cacheMementos |-> Len(JSONparse(cacheMementos[k]))])

MoveOps == {"movePlayer", "watchPosition"}

\* C1: no token id is at once in the inventory and in the token list of a
\* cache, be it a Cache object with a marker on the map or a directory
\* memento.
C1_NoDuplication ==
  \A t \in InventoryIds :
    /\ \A m \in DOMAIN mapMarkers : t \notin CacheIds(m)
    /\ \A k \in DOMAIN cacheMementos : t \notin MementoIds(k)

\* C2: a collect or a deposit leaves |inventory| + the number of tokens
\* recorded in the directory unchanged (in a session without reset or load).
C2_Conservation ==
  [][lastOp'.op \in {"collectCoin", "depositClick"} =>
       TotalTokens' = TotalTokens]_vars

\* C3: between events, every Cache with a marker on the map holds exactly
\* the token list of the directory memento of its cell.
C3_ViewMatchesDirectory ==
  pc = "running" =>
    \A m \in DOMAIN mapMarkers :
      /\ MarkerKey(m) \in DOMAIN cacheMementos
      /\ CoinIds(mapMarkers[m].coins) = JSONparse(cacheMementos[MarkerKey(m)])

\* C4: between events, every cache marker on the map belongs to a cell of
\* the neighbourhood (visibility radius) of the player's position.
C4_MarkersWithinRadius ==
  pc = "running" =>
    \A m \in DOMAIN mapMarkers :
      getCellForPoint(mapMarkers[m].location) \in getCellsNearPoint(playerPos)

\* C5: a cell whose cache was removed by a reconciliation and is materialized
\* again, with no collect or deposit on the cell in between, gets a Cache
\* with the token ids it held when it was removed.
Rematerialized(k) ==
  /\ k \in DOMAIN activeCacheMarkers'
  /\ \/ k \in StaleKeys(playerPos', activeCacheMarkers)
     \/ (k \notin DOMAIN activeCacheMarkers /\ k \in DOMAIN evicted)

HeldWhenRemoved(k) ==
  IF k \in DOMAIN activeCacheMarkers
  THEN CoinIds(mapMarkers[activeCacheMarkers[k]].coins)
  ELSE evicted[k]

C5_IdempotentRevisit ==
  [][lastOp'.op \in MoveOps =>
       \A k \in DOMAIN activeCacheMarkers' :
         Rematerialized(k) =>
           CoinIds(mapMarkers'[activeCacheMarkers'[k]].coins)
             = HeldWhenRemoved(k)]_vars

\* C6: within a page (from the startup generation on), no step other than
\* reset removes a key from the directory.
C6_DirectoryGrows ==
  [][lastOp'.op \notin {"reset", "moduleInit"} =>
       DOMAIN cacheMementos \subseteq DOMAIN cacheMementos']_vars

\* C7: every key of the directory, in memory and as saved in storage, is a
\* cell whose spawn roll is below the spawn probability.
StoredKeys ==
  IF storage.cacheMementos = <<>> THEN {}
  ELSE { e.key : e \in storage.cacheMementos[1] }

C7_OnlySpawnedCells ==
  \A k \in DOMAIN cacheMementos \cup StoredKeys :
    luck(k) < CACHE_SPAWN_PROBABILITY

\* A directory reloaded from storage that holds a cell first generated by a
\* move (CellNorth is outside the startup neighbourhood).
C7_Witness ==
  /\ lastOp.op = "loadGameState"
  /\ CellNorth \in StoredKeys
  /\ CellNorth \in DOMAIN cacheMementos

\* C8: depositCoin removes the head of the inventory and appends it to the
\* cache's token list, and collectCoin appends to the inventory: tokens leave
\* the inventory in the order they entered it.
C8_FifoDeposit ==
  [][/\ (lastOp'.op = "depositCoin" /\ playerInventory # <<>>) =>
          /\ playerInventory' = Tail(playerInventory)
          /\ mapMarkers'[lastOp'.marker].coins
               = Append(mapMarkers[lastOp'.marker].coins, Head(playerInventory))
     /\ lastOp'.op = "collectCoin" =>
          playerInventory' = Append(playerInventory, Coin(lastOp'.coin))]_vars

\* A deposit made with two or more tokens held: one is still held after it.
C8_Witness ==
  /\ lastOp.op = "depositCoin"
  /\ playerInventory # <<>>
  /\ mapMarkers[lastOp.marker].coins # <<>>

\* C9: a click on Deposit in the popup of a cache, with a non-empty
\* inventory, moves the oldest token of the inventory to that cache.
C9_DepositEffective ==
  [][(lastOp'.op = "depositClick" /\ playerInventory # <<>>) =>
       /\ playerInventory' = Tail(playerInventory)
       /\ mapMarkers'[popup.marker].coins
            = Append(mapMarkers[popup.marker].coins, Head(playerInventory))]_vars

\* C10: collectCoin with a token the cache does not hold changes neither the
\* inventory, nor the cache, nor the directory.
C10_CollectAbsentNoChange ==
  [][(lastOp'.op = "collectCoin" /\ lastOp'.coin \notin CacheIds(lastOp'.marker)) =>
       UNCHANGED <<playerInventory, mapMarkers, cacheMementos>>]_vars

\* C11: a deposit attempted with an empty inventory changes nothing: a call
\* of depositCoin with playerInventory empty leaves the inventory, the
\* caches on the map and the directory as they were, and a click on
\* depositBtn of the counter variant with coins = 0 leaves coins and every
\* cache's count as they were.
C11_EmptyDepositNoChange ==
  [][/\ (lastOp'.op = "depositCoin" /\ playerInventory = <<>>)
          => UNCHANGED <<playerInventory, mapMarkers, cacheMementos>>
     /\ (lastOp'.op = "depositBtn" /\ coins = 0)
          => UNCHANGED <<coins, cacheCoins>>]_vars

\* The only click in the counter variant was on depositBtn and the only call
\* in main.ts was of depositCoin: both found nothing to deposit.
C11_Witness ==
  /\ events = 2
  /\ lastOp.op = "depositCoin"
  /\ counterOp = "depositBtn"
  /\ playerInventory = <<>>
  /\ coins = 0
  /\ cacheMementos # EmptyMap
  /\ cacheCoins # EmptyMap

\* new Cache(location) hydrated from the memento of cache
Rehydrated(cache) ==
  fromMemento(NewCache(cache.location, <<>>), toMemento(cache))

\* C12: for every Cache, whatever its ordered token list, fromMemento on a
\* fresh Cache with the result of toMemento yields a Cache whose toMemento is
\* the same memento, holding the same token ids in the same order.
C12_MementoRoundTrip ==
  \A m \in DOMAIN mapMarkers :
    /\ toMemento(Rehydrated(mapMarkers[m])) = toMemento(mapMarkers[m])
    /\ CoinIds(Rehydrated(mapMarkers[m]).coins) = CoinIds(mapMarkers[m].coins)

\* A cache that holds three tokens or more, a token that was not generated
\* for it among them and not at the end: its memento round-trips.
C12_Witness ==
  \E m \in DOMAIN mapMarkers :
    LET cs == mapMarkers[m].coins
    IN /\ Len(cs) >= 3
       /\ \E x \in 1 .. Len(cs) - 1 : cs[x] \in ForeignCoins
       /\ cs[Len(cs)] \notin ForeignCoins
       /\ toMemento(Rehydrated(mapMarkers[m])) = toMemento(mapMarkers[m])

\* C13: a save followed by a new session reproduces the state at save time.
\* What saveGameState stores decodes to the inventory (same ids, same order)
\* and the directory (same keys, same mementos) it was called on, and after
\* the module body and loadGameState of the next session the inventory and
\* the directory are what the storage decodes to.
C13_SaveLoadRoundTrip ==
  (lastOp.op \in {"saveGameState", "loadGameState"}
     /\ storage.inventory # <<>> /\ storage.cacheMementos # <<>>)
    => /\ CoinIds(playerInventory) = JSONparse(storage.inventory[1])
       /\ cacheMementos = LoadedDirectory(storage.cacheMementos[1])
       /\ \A e \in storage.cacheMementos[1] : e.value.type = "string"

\* A session loaded from a save made with a token in the inventory and a
\* cache that has one token left.
C13_Witness ==
  /\ lastOp.op = "loadGameState"
  /\ pc = "running"
  /\ storage.inventory # <<>>
  /\ Len(playerInventory) = 1
  /\ \E k \in DOMAIN cacheMementos : Len(JSONparse(cacheMementos[k])) = 1

\* A stored directory value that is not the JSON text of a list of ids
Malformed(value) == value.type # "string" \/ ~IsArrayText(value.text)

\* C14: when loadGameState has run over a storage with malformed directory
\* entries, no malformed entry is in the directory, every other stored entry
\* is, with its memento, and the movement trail is the stored one.
C14_MalformedEntriesSkipped ==
  (lastOp.op = "loadGameState" /\ storage.cacheMementos # <<>>)
    => /\ \A e \in storage.cacheMementos[1] :
            IF Malformed(e.value)
            THEN e.key \notin DOMAIN cacheMementos
            ELSE /\ e.key \in DOMAIN cacheMementos
                 /\ cacheMementos[e.key] = e.value.text
       /\ movementHistory = StoredTrail

\* C15: the initial token count of a newly generated cache is
\* floor(luck(key of the cell with the suffix "coins") * maximum), a draw of
\* its own and not the spawn roll of the cell: after the module body of
\* main.ts every generated cache holds that many tokens, and after the
\* module body of the counter variant every cache counts that many coins.
C15_CountFromOwnKey ==
  /\ lastOp.op = "moduleInit"
       => \A k \in DOMAIN cacheMementos :
            Len(JSONparse(cacheMementos[k])) =
              (luck(CoinsKey(k[1], k[2])) * COIN_COUNT_SCALE) \div 100
  /\ counterOp = "startup"
       => \A k \in DOMAIN cacheCoins :
            cacheCoins[k] =
              (luck(CoinsKey(k[1], k[2])) * CACHE_COINS_SCALE) \div 100

\* At most one watch is registered, and the flag is set exactly when a
\* watcher id is held, which is then the registered watch
OneSubscription ==
  /\ Cardinality(watches) <= 1
  /\ geolocationActive <=> geolocactionWatcherId # NoWatcher
  /\ watches = IF geolocationActive THEN {geolocactionWatcherId} ELSE {}

\* C16: whatever the clicks on sensor, at most one geolocation watch is
\* registered at a time and geolocationActive is true exactly when a watcher
\* id is held; a click starts a watch if none is active and stops otherwise,
\* and a stop deregisters exactly the handle the preceding start returned.
C16_SensorToggle ==
  [][/\ OneSubscription
     /\ OneSubscription'
     /\ lastOp'.op = "sensor"
          => /\ geolocationActive' = ~geolocationActive
             /\ geolocationActive
                  => /\ watches' = watches \ {geolocactionWatcherId}
                     /\ watches' = {}
             /\ ~geolocationActive
                  => /\ geolocactionWatcherId' \notin watches
                     /\ watches' = {geolocactionWatcherId'}]_vars

\* Tracking was started, stopped and started again: the second watch is the
\* only one registered.
C16_Witness ==
  /\ lastOp.op = "sensor"
  /\ geolocationActive
  /\ watchCount = 2
  /\ watches = {geolocactionWatcherId}

\* The cells whose x and y each differ from a centre's by at most r
Neighborhood(centre, r) ==
  { <<centre[1] + dx, centre[2] + dy>> : dx \in -r .. r, dy \in -r .. r }

\* C17: wherever the program enumerates the cells near a point with radius
\* r, it enumerates the (2r+1)^2 cells that differ by at most r, both ends
\* included: the counter variant has a cache for exactly the cells of that
\* square around its origin whose spawn roll is positive, and the cells
\* main.ts spawns from at startup are those of the square around the cell of
\* the start position.
C17_NeighborhoodInclusive ==
  /\ counterPc = "running"
       => DOMAIN cacheCoins =
            { k \in Neighborhood(<<0, 0>>, LOCAL_RADIUS) :
                luck(k) < SPAWN_PROB }
  /\ lastOp.op = "moduleInit"
       => DOMAIN cacheMementos =
            { k \in Neighborhood(CellKey(OakesCell), TILE_VISIBILITY_RADIUS) :
                luck(k) < CACHE_SPAWN_PROBABILITY }

\* The cells near the player whose spawn decision is positive
VisibleSpawnCells ==
  { k \in Neighborhood(CellKey(getCellForPoint(playerPos)),
                       TILE_VISIBILITY_RADIUS) :
      luck(k) < CACHE_SPAWN_PROBABILITY }

\* C18: when a position update (a move in one of the four directions or a
\* geolocation callback) has been handled, the cell keys tracked in
\* activeCacheMarkers are exactly the cells of the neighbourhood of the new
\* position whose spawn decision is positive, each with its marker on the
\* map: stale cells have been removed and missing ones added.
C18_ReconciledAfterMove ==
  lastOp.op \in MoveOps
    => /\ DOMAIN activeCacheMarkers = VisibleSpawnCells
       /\ \A k \in DOMAIN activeCacheMarkers :
            /\ activeCacheMarkers[k] \in DOMAIN mapMarkers
            /\ MarkerKey(activeCacheMarkers[k]) = k

\* An update removed the tracked marker of a cell that left the
\* neighbourhood and tracks the marker of one that entered it.
C18_Witness ==
  /\ lastOp.op \in MoveOps
  /\ CellSouth \in DOMAIN evicted
  /\ CellSouth \notin DOMAIN activeCacheMarkers
  /\ CellNorth \in DOMAIN activeCacheMarkers

\* C19: once the page runs (after startup and load, and after any moves),
\* no two markers on the map are caches of the same cell and every marker on
\* the map is tracked in activeCacheMarkers.
C19_OneTrackedMarkerPerCell ==
  pc = "running"
    => /\ \A m, n \in DOMAIN mapMarkers :
            MarkerKey(m) = MarkerKey(n) => m = n
       /\ DOMAIN mapMarkers = Range(activeCacheMarkers)

\* The markers loadGameState puts on the map
LoadedMarkerKeys ==
  { CellKey(getCellForPoint(mapMarkers'[m].location)) :
      m \in DOMAIN mapMarkers' \ DOMAIN mapMarkers }

\* C20: when loadGameState restores a saved player position, the caches it
\* materializes from the saved directory are exactly those whose cell
\* centre is within the visibility threshold of the restored position.
C20_LoadNearRestoredPosition ==
  [][(lastOp'.op = "loadGameState" /\ storage.playerPosition # <<>>)
       => LoadedMarkerKeys = LoadSpawnKeys(playerPos', cacheMementos')]_vars

====
